---- MODULE Spec2Model ----
(***************************************************************************)
(* Model of the backend of privacy-preserving-ml:                          *)
(*   - the job orchestrator (POST /api/submit and processJob), and         *)
(*   - the attestation verifier (verifyTdxQuote, verifyReportDataBinding,  *)
(*     verifyResultSignature, verifyAttestation).                          *)
(* One action is one run-to-completion segment of JavaScript: the code     *)
(* between two awaits of a handler.  The compute service, the quote oracle *)
(* and the clients are the environment: their answers are inputs.          *)
(***************************************************************************)
EXTENDS Integers, Sequences, FiniteSets, TLC

VARIABLES
    jobQueue,      \* const jobQueue = []        (ids of the pushed job objects)
    jobResults,    \* const jobResults = new Map (job id -> job object)
    task,          \* per job: where its processJob call is suspended
    vin,           \* verifier: the arguments (attestation, result, requestNonce)
    vpc,           \* verifier: position of the verifyAttestation call
    vres,          \* verifier: the verificationResults object
    bin,           \* binding check: arguments of verifyReportDataBinding
    bout,          \* binding check: its return value
    sin,           \* signature check: arguments of verifyResultSignature
    sout,          \* signature check: its return value
    lastSubmit,    \* the latest POST /api/submit: its data and its response
    lastQuery,     \* the latest read-only request and its response
    cin,           \* canonicalization: the value handed over
    cout,          \* canonicalization: the message text
    nin,           \* noise post-processing: the noised bucket percentages
    nout,          \* noise post-processing: the released percentages
    poller         \* web client: its job id, poll timers and polls in flight

jobVars == <<jobQueue, jobResults, task>>
verVars == <<vin, vpc, vres>>
bindVars == <<bin, bout>>
sigVars == <<sin, sout>>
apiVars == <<lastSubmit>>
queryVars == <<lastQuery>>
canonVars == <<cin, cout>>
noiseVars == <<nin, nout>>
pollVars == <<poller>>
vars == <<jobQueue, jobResults, task,
          vin, vpc, vres, bin, bout, sin, sout, lastSubmit, lastQuery,
          cin, cout, nin, nout, poller>>

\* JavaScript's undefined / null / absent property.
NULL == "undefined"

(***************************************************************************)
(*                          JOB ORCHESTRATOR                               *)
(***************************************************************************)

\* Bound: number of submissions accepted in one run.
MaxJobs == 2

\* const maxRetries = 5
maxRetries == 5

JobIds == 1..MaxJobs

\* req.body.data of a submission: absent, or a batch of records.
DataInputs == {NULL, "records"}

\* req.body.epsilon of a submission: <<>> is "not given".
EpsilonInputs == {<<>>, <<0>>, <<1>>, <<-1>>}

\* A default that is taken only when no epsilon was sent.
EpsilonUnlessAbsent(e) == IF e = <<>> THEN 1 ELSE e[1]

\* epsilon || 1.0
EpsilonOrDefault(e) == IF e = <<>> \/ e[1] = 0 THEN 1 ELSE e[1]

\* An encryption with one key drawn at start-up and used for every call.
encryptWithCachedKey(data, n) ==
    [encryptedData |-> <<"fernet", 1, data>>, encryptionKey |-> 1]

\* encryptDataForTEE(data): a key drawn for this call, and the token.
\* The random key is modelled by the number of the call that drew it.
encryptDataForTEE(data, n) ==
    [encryptedData |-> <<"fernet", n, data>>, encryptionKey |-> n]

\* Bodies the compute service (or a gateway in front of it) can answer with.
\* text is the body as JSON.stringify prints it.
WellFormedBody == [kind |-> "object", result |-> "R", attestation |-> "A",
                   error |-> NULL, text |-> "{result,attestation}"]
ErrorBody      == [kind |-> "object", result |-> NULL, attestation |-> NULL,
                   error |-> "Decryption failed", text |-> "{error}"]
NoAttBody      == [kind |-> "object", result |-> "R", attestation |-> NULL,
                   error |-> NULL, text |-> "{result}"]
NullBody       == [kind |-> "null", result |-> NULL, attestation |-> NULL,
                   error |-> NULL, text |-> "null"]
Bodies == {WellFormedBody, ErrorBody, NoAttBody, NullBody}

Statuses == {200, 400, 503}

\* What one axios.post(`${TEE_SERVICE_URL}/analyze`) can end with: an HTTP
\* answer, or a network error (reset, TLS failure, timeout) without one.
HttpOutcomes == [kind : {"http"}, status : Statuses, data : Bodies,
                 message : {NULL}]
NetOutcomes == [kind : {"net"}, status : {0}, data : {NullBody},
                message : {"ECONNRESET", "timeout of 120000ms exceeded"}]
AnalyzeOutcomes == HttpOutcomes \cup NetOutcomes

\* validateStatus: (status) => status < 500
validateStatus(status) == status < 500

\* axios resolves the promise iff there is an answer and validateStatus
\* accepts its status; otherwise it rejects with an error.
Resolves(o) == o.kind = "http" /\ validateStatus(o.status)

\* The error object axios rejects with.
AxiosError(o) ==
    IF o.kind = "http"
    THEN [hasResponse |-> TRUE, data |-> o.data,
          message |-> "Request failed with status code"]
    ELSE [hasResponse |-> FALSE, data |-> NullBody, message |-> o.message]

\* The TypeError of reading a property of null.
TypeErrorNull ==
    [hasResponse |-> FALSE, data |-> NullBody,
     message |-> "Cannot read properties of null"]

\* An error text that is lost.
ErrorTextDropped(err) == NULL

\* error.response?.data?.error || error.response?.data || error.message,
\* then: typeof errorMsg === 'string' ? errorMsg : JSON.stringify(errorMsg)
ErrorText(err) ==
    IF err.hasResponse /\ err.data.kind = "object" /\ err.data.error # NULL
    THEN err.data.error
    ELSE IF err.hasResponse /\ err.data.kind = "object"
    THEN err.data.text
    ELSE err.message

\* A wait that does not grow with the attempt.
DelayFlat(attempt) == 2000

\* Math.min(2000 * attempt, 10000)
Delay(attempt) == IF 2000 * attempt < 10000 THEN 2000 * attempt ELSE 10000

\* A job record that keeps the key of its submission.
NewJobWithKey(id, eps) ==
    [id |-> id, status |-> "pending", createdAt |-> TRUE, epsilon |-> eps,
     result |-> NULL, attestation |-> NULL, error |-> NULL,
     completedAt |-> NULL, encryptionKey |-> id]

\* const job = { id, status: 'pending', createdAt, epsilon }
NewJob(id, eps) ==
    [id |-> id, status |-> "pending", createdAt |-> TRUE, epsilon |-> eps,
     result |-> NULL, attestation |-> NULL, error |-> NULL,
     completedAt |-> NULL]

\* A dispatch that forgets the status write.
DispatchKeepsPending(job) == job

\* processJob up to its first await: job.status = 'processing'
Dispatch(job) == [job EXCEPT !.status = "processing"]

\* new https.Agent({ keepAlive: false, ... }): an object of its own, told
\* apart from every other agent by the call of the job it was made for
\* (0 is the health probe, k is attempt k).
Agent(jobId, call) == [job |-> jobId, call |-> call, keepAlive |-> FALSE]

\* const healthAgent = new https.Agent(...)
healthAgent(jobId) == Agent(jobId, 0)

\* An attempt that posts through the agent of the health probe.
httpsAgentOfProbe(jobId, attempt) == healthAgent(jobId)

\* const httpsAgent = new https.Agent(...) inside the retry loop
httpsAgent(jobId, attempt) == Agent(jobId, attempt)

\* A processJob call that is never resumed after its first await.
NewTaskNeverResumed(jobId, enc, eps) ==
    [pc |-> "parked", attempt |-> 0,
     payload |-> [data |-> enc.encryptedData, key |-> enc.encryptionKey,
                  epsilon |-> eps],
     waited |-> <<>>, response |-> 0, agents |-> <<healthAgent(jobId)>>]

\* The frame of a processJob call: where it is suspended (pc), the loop
\* counter, the request payload, the delays slept so far, and the HTTP
\* status of the local `response` (0 while it is unassigned), and the
\* agents its network calls went through, the probe's first.
NewTask(jobId, enc, eps) ==
    [pc |-> "health", attempt |-> 0,
     payload |-> [data |-> enc.encryptedData, key |-> enc.encryptionKey,
                  epsilon |-> eps],
     waited |-> <<>>, response |-> 0, agents |-> <<healthAgent(jobId)>>]

JobInit ==
    /\ jobQueue = <<>>
    /\ jobResults = <<>>
    /\ task = <<>>

\* A check of the request that lets every request through.
AcceptsAnything(data) == TRUE

\* A check that also refuses a request once an earlier job has spent an
\* epsilon of one.
AcceptsWhileBudgetLasts(data) ==
    data # NULL /\ \A k \in DOMAIN jobResults : jobResults[k].epsilon < 1

\* if (!data) return res.status(400)...: the requests that get past it.
Accepts(data) == data # NULL

\* app.post('/api/submit') with no data: 400, nothing else happens.
SubmitRejected(data) ==
    /\ ~Accepts(data)
    /\ UNCHANGED <<jobQueue, jobResults, task>>

\* A queue that holds the latest job only.
EnqueueLatestOnly(queue, jobId) == <<jobId>>

\* jobQueue.push(job)
Enqueue(queue, jobId) == Append(queue, jobId)

\* app.post('/api/submit') with data.  The handler runs, without
\* interruption, up to the response: it encrypts, creates and stores the
\* job, and calls processJob, which runs up to its first await (the health
\* probe).  Job ids are 16 random bytes: modelled as never repeating.
Submit(data, epsilon) ==
    /\ Accepts(data)
    /\ Len(jobQueue) < MaxJobs
    /\ LET jobId == Len(jobQueue) + 1
           enc == encryptDataForTEE(data, jobId)
           eps == EpsilonOrDefault(epsilon)
           job == NewJob(jobId, eps)
       IN /\ jobQueue' = Enqueue(jobQueue, jobId)
          /\ jobResults' = Append(jobResults, Dispatch(job))
          /\ task' = Append(task, NewTask(jobId, enc, eps))

\* A POST /api/submit and its response, as far as a client sees them.
Exchange(data, response) ==
    [data |-> data, code |-> response.code, jobId |-> response.jobId,
     status |-> response.status, error |-> response.error]

\* No submission yet.
NoExchange ==
    [data |-> NULL, code |-> 0, jobId |-> 0, status |-> NULL, error |-> NULL]

\* res.status(400).json({ error: 'No data provided' })
RejectResponse ==
    [code |-> 400, jobId |-> 0, status |-> NULL, error |-> "No data provided"]

\* A response that names another job than the one created.
SubmitResponseOtherId(jobId) ==
    [code |-> 200, jobId |-> jobId + 1, status |-> "pending", error |-> NULL]

\* res.json({ jobId, status: 'pending', message: ... })
SubmitResponse(jobId) ==
    [code |-> 200, jobId |-> jobId, status |-> "pending", error |-> NULL]

\* The rejected submission together with the response the client gets.
SubmitRefused(data) ==
    /\ SubmitRejected(data)
    /\ lastSubmit' = Exchange(data, RejectResponse)

\* The accepted submission together with the response the client gets: the
\* handler sends it when processJob has returned its promise, that is at
\* processJob's first await.
SubmitAnswered(data, epsilon) ==
    /\ Submit(data, epsilon)
    /\ lastSubmit' = Exchange(data, SubmitResponse(jobQueue'[Len(jobQueue')]))

\* A probe whose failure is counted as the first attempt.
ProbeFailureCounts(frame, j, ok) ==
    [frame EXCEPT !.pc = "analyze", !.attempt = IF ok THEN 1 ELSE 2,
                  !.agents = Append(@, httpsAgent(j, 1))]

\* The frame after the probe's try/catch: the catch only logs, and the loop
\* starts with attempt = 1 and an agent of its own.
AfterProbe(frame, j, ok) ==
    [frame EXCEPT !.pc = "analyze", !.attempt = 1,
                  !.agents = Append(@, httpsAgent(j, 1))]

\* The health probe returned or failed: either way processJob goes on to
\* the retry loop and posts attempt 1.
HealthDone(j, ok) ==
    /\ j \in DOMAIN task
    /\ task[j].pc = "health"
    /\ task' = [task EXCEPT ![j] = AfterProbe(@, j, ok)]
    /\ UNCHANGED <<jobQueue, jobResults>>

\* catch (error) of processJob: job.status = 'failed'; job.error = ...
FailJob(job, err) ==
    [job EXCEPT !.status = "failed", !.error = ErrorText(err)]

\* "Store result": job.status = 'completed'; job.result = response.data.result;
\* job.attestation = ...; job.completedAt = ...  Reading a property of a
\* null body throws after the first assignment, into the catch.
StoreResult(job, data) ==
    LET marked == [job EXCEPT !.status = "completed"]
    IN IF data.kind = "null"
       THEN FailJob(marked, TypeErrorNull)
       ELSE [marked EXCEPT !.result = data.result,
                           !.attestation = data.attestation,
                           !.completedAt = TRUE]

\* Every processJob call writing the record of the first job.
SharedJob(jobId) == 1

\* const job = jobResults.get(jobId): the record a processJob call writes.
JobOf(jobId) == jobId

\* A retry test that gives up one attempt early.
GivesUpEarly(attempt) == attempt < maxRetries - 1

\* A retry test that allows one attempt more.
RetriesOnceMore(attempt) == attempt < maxRetries + 1

\* if (attempt < maxRetries) in the catch of the retry loop
MayRetry(attempt) == attempt < maxRetries

\* One axios.post to /analyze ended with outcome o: the loop breaks on an
\* answer axios resolves, sleeps and retries on an error before the last
\* attempt, and rethrows the error of the last attempt.
AnalyzeDone(j, o) ==
    /\ j \in DOMAIN task
    /\ task[j].pc = "analyze"
    /\ IF Resolves(o)
       THEN /\ jobResults' = [jobResults EXCEPT
                               ![JobOf(j)] = StoreResult(@, o.data)]
            /\ task' = [task EXCEPT ![j].pc = "done", ![j].response = o.status]
       ELSE IF MayRetry(task[j].attempt)
       THEN /\ task' = [task EXCEPT ![j].pc = "backoff",
                           ![j].waited = Append(@, Delay(task[j].attempt))]
            /\ UNCHANGED jobResults
       ELSE /\ jobResults' = [jobResults EXCEPT
                               ![JobOf(j)] = FailJob(@, AxiosError(o))]
            /\ task' = [task EXCEPT ![j].pc = "done"]
    /\ UNCHANGED jobQueue

\* The setTimeout of the backoff fired: the loop starts the next attempt.
BackoffDone(j) ==
    /\ j \in DOMAIN task
    /\ task[j].pc = "backoff"
    /\ task' = [task EXCEPT ![j].pc = "analyze", ![j].attempt = @ + 1,
                           ![j].agents =
                               Append(@, httpsAgent(j, task[j].attempt + 1))]
    /\ UNCHANGED <<jobQueue, jobResults>>

\* A read that resets the status of the record it returns.
ReadJobResets(job) == [job EXCEPT !.status = "pending"]

\* res.json(job): the record is serialised into the response as it is.
ReadJob(job) == job

\* app.get('/api/job/:jobId'): 404 for an unknown id, else the record.
GetJob(j) ==
    /\ jobResults' = [k \in DOMAIN jobResults |->
                         IF k = j THEN ReadJob(jobResults[k]) ELSE jobResults[k]]
    /\ UNCHANGED <<jobQueue, task>>

(***************************************************************************)
(*                    STRINGS, HEX TEXT AND BUFFERS                        *)
(* A JavaScript string is a sequence of one-character strings; a Buffer is *)
(* a sequence of bytes 0..255.                                             *)
(***************************************************************************)

\* An absent (undefined or null) property, in a slot that holds a string.
Undef == <<"undefined">>

\* A JSON number in a slot that should hold a string.
NumberValue == <<"number">>

IsString(s) == s # Undef /\ s # NumberValue

\* !x for a slot that holds a string: absent or ''.
Falsy(s) == s = Undef \/ s = <<>>

LowerDigits ==
    <<"0", "1", "2", "3", "4", "5", "6", "7", "8", "9",
      "a", "b", "c", "d", "e", "f">>
UpperDigits ==
    <<"0", "1", "2", "3", "4", "5", "6", "7", "8", "9",
      "A", "B", "C", "D", "E", "F">>

\* The value of a hex digit, upper or lower case; -1 for any other character.
HexVal(c) ==
    IF \E i \in 1..16 : LowerDigits[i] = c
    THEN (CHOOSE i \in 1..16 : LowerDigits[i] = c) - 1
    ELSE IF \E i \in 1..16 : UpperDigits[i] = c
    THEN (CHOOSE i \in 1..16 : UpperDigits[i] = c) - 1
    ELSE -1

\* s.startsWith('0x')
StartsWith0x(s) == Len(s) >= 2 /\ s[1] = "0" /\ s[2] = "x"

\* s.startsWith('0x') ? s.slice(2) : s
Strip0x(s) == IF StartsWith0x(s) THEN SubSeq(s, 3, Len(s)) ELSE s

\* A text left in the letter case it came in.
KeepCase(s) == s

\* s.toLowerCase()
ToLowerCase(s) ==
    [i \in 1..Len(s) |->
        IF s[i] = "X" THEN "x"
        ELSE IF HexVal(s[i]) >= 10 THEN LowerDigits[HexVal(s[i]) + 1]
        ELSE s[i]]

\* Buffer.from(s, 'hex'): two digits per byte, either case; decoding stops
\* at the first pair that is not two hex digits, and a trailing single
\* digit is dropped.
BufferFromHex(s) ==
    LET pairs == Len(s) \div 2
        Good(i) == HexVal(s[2 * i - 1]) >= 0 /\ HexVal(s[2 * i]) >= 0
        n == IF \A i \in 1..pairs : Good(i)
             THEN pairs
             ELSE (CHOOSE i \in 1..pairs :
                      ~Good(i) /\ \A k \in 1..(i - 1) : Good(k)) - 1
    IN [i \in 1..n |-> 16 * HexVal(s[2 * i - 1]) + HexVal(s[2 * i])]

\* buf.toString('hex'): lower-case digits.
ToHex(buf) ==
    [i \in 1..(2 * Len(buf)) |->
        IF i % 2 = 1
        THEN LowerDigits[(buf[(i + 1) \div 2] \div 16) + 1]
        ELSE LowerDigits[(buf[i \div 2] % 16) + 1]]

\* buf.slice(from, to), with Buffer's clamping to the length.
Slice(buf, from, to) ==
    SubSeq(buf, from + 1, IF to < Len(buf) THEN to ELSE Len(buf))

\* Report data format: [signing_address (32 bytes) || nonce (32 bytes)]
HalfLen == 32
ReportDataLen == 64

\* const padded = Buffer.alloc(32); bytes.copy(padded, 0)
PadTo32(bytes) ==
    [i \in 1..HalfLen |-> IF i <= Len(bytes) THEN bytes[i] ELSE 0]

(***************************************************************************)
(*                     REPORT-DATA BINDING CHECK                           *)
(***************************************************************************)

\* The oracle's answer as far as the verifier reads it: whether there is a
\* quote object, its verified field ("true", "false" or something else),
\* and quote.body.reportdata.
IntelResult(hasQuote, verified, reportdata) ==
    [present |-> TRUE, hasQuote |-> hasQuote, verified |-> verified,
     reportdata |-> reportdata]

\* No intelResult (null).
NoIntelResult ==
    [present |-> FALSE, hasQuote |-> FALSE, verified |-> "false",
     reportdata |-> Undef]

BindingFailed(msg) ==
    [bindsAddress |-> FALSE, embedsNonce |-> FALSE, error |-> msg,
     embeddedAddress |-> Undef, embeddedNonce |-> Undef,
     expectedAddress |-> Undef, expectedNonce |-> Undef]

\* const embedsNonce = embeddedNonceHex === requestNonceHex
NonceTextEqual(embeddedNonce, requestNonceHex) ==
    ToHex(embeddedNonce) = requestNonceHex

\* const bindsAddress = embeddedAddress.equals(paddedAddress)
AddressBytesEqual(embeddedAddress, paddedAddress) ==
    embeddedAddress = paddedAddress

\* verifyReportDataBinding(attestation, requestNonce, intelResult), given
\* attestation.signing_address.
verifyReportDataBinding(signingAddress, requestNonce, intelResult) ==
    IF ~intelResult.present \/ ~intelResult.hasQuote
    THEN BindingFailed("Intel result missing")
    ELSE IF Falsy(intelResult.reportdata)
    THEN BindingFailed("Report data not found in quote")
    ELSE IF ~IsString(intelResult.reportdata) \/ ~IsString(signingAddress)
            \/ ~IsString(requestNonce)
    THEN BindingFailed("TypeError: startsWith is not a function")
    ELSE
      LET reportData == BufferFromHex(Strip0x(intelResult.reportdata))
          signingAddressBytes == BufferFromHex(Strip0x(signingAddress))
          embeddedAddress == Slice(reportData, 0, HalfLen)
          embeddedNonce == Slice(reportData, HalfLen, ReportDataLen)
          paddedAddress == PadTo32(signingAddressBytes)
          requestNonceHex == Strip0x(requestNonce)
      IN [bindsAddress |-> AddressBytesEqual(embeddedAddress, paddedAddress),
          embedsNonce |-> NonceTextEqual(embeddedNonce, requestNonceHex),
          error |-> "",
          embeddedAddress |-> ToHex(embeddedAddress),
          embeddedNonce |-> ToHex(embeddedNonce),
          expectedAddress |-> ToHex(paddedAddress),
          expectedNonce |-> requestNonceHex]

\* s.toUpperCase(), on hex text
ToUpperCase(s) ==
    [i \in 1..Len(s) |->
        IF HexVal(s[i]) >= 10 THEN UpperDigits[HexVal(s[i]) + 1] ELSE s[i]]

\* The ways a byte string is written as hex text in a request.
Encodings == {"lower", "upper", "0xlower", "0xupper"}

Encode(bytes, style) ==
    CASE style = "lower" -> ToHex(bytes)
      [] style = "upper" -> ToUpperCase(ToHex(bytes))
      [] style = "0xlower" -> <<"0", "x">> \o ToHex(bytes)
      [] style = "0xupper" -> <<"0", "x">> \o ToUpperCase(ToHex(bytes))

\* A 20-byte signing address, a 32-byte nonce, and the report data that
\* binds them: pad32(address) || nonce.
SampleAddress == [i \in 1..20 |-> (37 * i + 171) % 256]
SampleNonce == [i \in 1..32 |-> (53 * i + 10) % 256]
SampleReportData == SampleAddress \o [i \in 1..12 |-> 0] \o SampleNonce

\* bytes with the byte at position i replaced by another value.
MutateByte(bytes, i) == [bytes EXCEPT ![i] = (@ + 1) % 256]

\* Report data the oracle can return: the bound one, each single-byte
\* mutation of it, and one cut after the address half.
ReportDataBytes ==
    {SampleReportData, SubSeq(SampleReportData, 1, 32)}
        \cup {MutateByte(SampleReportData, i) : i \in 1..64}

AddressBytes == {SampleAddress, MutateByte(SampleAddress, 20)}
NonceBytes == {SampleNonce, MutateByte(SampleNonce, 1), MutateByte(SampleNonce, 32)}

\* The calls of verifyReportDataBinding that are checked: every argument is
\* kept as the bytes it stands for together with the text handed over.
BindingInputs ==
    [addressBytes : AddressBytes, addressStyle : {"0xlower", "0xupper", "lower"},
     nonceBytes : NonceBytes, nonceStyle : {"lower", "upper", "0xlower"},
     reportBytes : ReportDataBytes, reportStyle : {"lower"}]
    \cup
    [addressBytes : {SampleAddress}, addressStyle : {"0xlower"},
     nonceBytes : {SampleNonce}, nonceStyle : {"lower"},
     reportBytes : {SampleReportData}, reportStyle : {"upper", "0xlower"}]

BindInit ==
    /\ bin \in BindingInputs
    /\ bout = <<>>

\* One call of verifyReportDataBinding with a parsed quote.
RunBinding ==
    /\ bout = <<>>
    /\ bout' = <<verifyReportDataBinding(
                    Encode(bin.addressBytes, bin.addressStyle),
                    Encode(bin.nonceBytes, bin.nonceStyle),
                    IntelResult(TRUE, "true",
                                Encode(bin.reportBytes, bin.reportStyle)))>>
    /\ UNCHANGED bin

(***************************************************************************)
(*                 JSON VALUES AND THE CANONICAL MESSAGE                   *)
(* A JSON value is [t, v]: an object holds its entries [k, val] in         *)
(* insertion order, an array its items, a number or string its text.       *)
(***************************************************************************)

JNum(text) == [t |-> "num", v |-> text]
JObj(entries) == [t |-> "obj", v |-> entries]
JArr(items) == [t |-> "arr", v |-> items]
JUndefined == [t |-> "undefined", v |-> ""]
Entry(k, val) == [k |-> k, val |-> val]

\* Every property name of the model's values, in the order of
\* Array.prototype.sort() (by UTF-16 code unit).
KeysInSortOrder ==
    <<"epsilon_per_query", "mean_risk", "privacy_budget", "raw_metrics",
      "result", "risk_metrics", "total_customers">>

KeyRank(k) == CHOOSE i \in 1..Len(KeysInSortOrder) : KeysInSortOrder[i] = k

\* obj[k] (undefined when obj is no object or has no such property)
Prop(obj, k) ==
    IF obj.t = "obj" /\ \E i \in 1..Len(obj.v) : obj.v[i].k = k
    THEN obj.v[CHOOSE i \in 1..Len(obj.v) : obj.v[i].k = k].val
    ELSE JUndefined

\* !!x
Truthy(x) ==
    \/ x.t \in {"obj", "arr"}
    \/ x.t = "num" /\ x.v # "0"
    \/ x.t = "str" /\ x.v # ""

\* Object.keys(obj).sort(): the entries of an object by ascending key.
SortedEntries(entries) ==
    LET n == Len(entries)
        Place(i) == 1 + Cardinality({j \in 1..n :
                           KeyRank(entries[j].k) < KeyRank(entries[i].k)})
    IN [p \in 1..n |-> entries[CHOOSE i \in 1..n : Place(i) = p]]

\* A key sort that does not descend into nested values.
sortKeysShallow(x) ==
    IF x.t = "obj" THEN JObj(SortedEntries(x.v)) ELSE x

RECURSIVE sortKeysRecursively(_)
\* function sortKeysRecursively(obj)
sortKeysRecursively(x) ==
    IF x.t = "arr"
    THEN JArr([i \in 1..Len(x.v) |-> sortKeysRecursively(x.v[i])])
    ELSE IF x.t = "obj"
    THEN LET sorted == SortedEntries(x.v)
         IN JObj([i \in 1..Len(sorted) |->
                     Entry(sorted[i].k, sortKeysRecursively(sorted[i].val))])
    ELSE x

RECURSIVE JoinWithCommas(_)
\* The texts of a list, separated by commas.
JoinWithCommas(texts) ==
    IF texts = <<>> THEN <<>>
    ELSE IF Len(texts) = 1 THEN texts[1]
    ELSE texts[1] \o <<",">> \o JoinWithCommas(Tail(texts))

RECURSIVE Stringify(_)
\* JSON.stringify(x), as the sequence of its tokens: compact, properties in
\* insertion order.
Stringify(x) ==
    IF x.t = "obj"
    THEN <<"{">>
         \o JoinWithCommas([i \in 1..Len(x.v) |->
                <<"'", x.v[i].k, "'", ":">> \o Stringify(x.v[i].val)])
         \o <<"}">>
    ELSE IF x.t = "arr"
    THEN <<"[">>
         \o JoinWithCommas([i \in 1..Len(x.v) |-> Stringify(x.v[i])])
         \o <<"]">>
    ELSE IF x.t = "str" THEN <<"'", x.v, "'">>
    ELSE <<x.v>>

\* The values that are canonicalized: one value in every insertion order of
\* the keys of its objects, which sit at the top, inside an object, inside
\* an array and two levels down.
Perms3 == {p \in [1..3 -> 1..3] : \A a, b \in 1..3 : a # b => p[a] # p[b]}

Inner(p) ==
    LET entries == <<Entry("epsilon_per_query", JNum("1")),
                     Entry("mean_risk", JNum("2")),
                     Entry("total_customers", JNum("3"))>>
    IN JObj([i \in 1..3 |-> entries[p[i]]])

CanonValue(p1, p2, p3) ==
    LET entries ==
            <<Entry("privacy_budget", Inner(p1)),
              Entry("raw_metrics", JArr(<<Inner(p2), JNum("7")>>)),
              Entry("risk_metrics", JObj(<<Entry("result", Inner(p2))>>))>>
    IN JObj([i \in 1..3 |-> entries[p3[i]]])

CanonInputs == [inner : Perms3, nested : Perms3, top : Perms3]

CanonInit ==
    /\ cin \in CanonInputs
    /\ cout = <<>>

\* sortKeysRecursively applied to the value, and then to what it returned.
RunCanon ==
    /\ Len(cout) < 2
    /\ cout' = Append(cout,
                 IF cout = <<>>
                 THEN sortKeysRecursively(CanonValue(cin.inner, cin.nested, cin.top))
                 ELSE sortKeysRecursively(cout[1]))
    /\ UNCHANGED cin

(***************************************************************************)
(*                        RESULT SIGNATURE CHECK                           *)
(* The enclave's keys and ECDSA are the environment: key k signs the       *)
(* canonical text of a result, and recovery from (text, signature) gives   *)
(* the signer's address exactly for the signatures that were made.         *)
(***************************************************************************)

Keys == {1, 2}

\* The address of key k (20 bytes).
KeyAddress(k) == IF k = 1 THEN SampleAddress ELSE MutateByte(SampleAddress, 20)

\* An address no key of the model has.
UnrelatedAddress == [i \in 1..20 |-> (11 * i + 3) % 256]

\* The analytics results the enclave signs, as it serialises them: keys
\* sorted at every level.
SignedResult(i) ==
    JObj(<<Entry("privacy_budget",
                 JObj(<<Entry("epsilon_per_query", JNum("1"))>>)),
           Entry("risk_metrics",
                 JObj(<<Entry("mean_risk", JNum("2")),
                        Entry("total_customers",
                              JNum(IF i = 1 THEN "1" ELSE "2"))>>))>>)

SignedResultIds == {1, 2}

\* The text the enclave signs: json.dumps(result, sort_keys=True), compact.
SignerText(i) == Stringify(SignedResult(i))

\* The same value with its properties in another insertion order.
Reversed(entries) ==
    [p \in 1..Len(entries) |-> entries[Len(entries) + 1 - p]]

Permuted(i) ==
    JObj(Reversed([p \in 1..2 |->
        Entry(SignedResult(i).v[p].k, JObj(Reversed(SignedResult(i).v[p].val.v)))]))

\* The `result` argument in the forms a caller hands it over.
ResultForms == {"sorted", "permuted", "wrapped", "nometrics", "absent"}

ResultValue(form, i) ==
    CASE form = "sorted" -> SignedResult(i)
      [] form = "permuted" -> Permuted(i)
      [] form = "wrapped" -> JObj(<<Entry("result", Permuted(i))>>)
      [] form = "nometrics" ->
            JObj(<<Entry("raw_metrics", JObj(<<Entry("mean_risk", JNum("2"))>>))>>)
      [] form = "absent" -> JUndefined

\* The 65 bytes r || s || v of the signature of key k over SignerText(i).
SignatureBytes(k, i) ==
    [n \in 1..65 |->
        IF n = 65 THEN 27 + ((k + i) % 2)
        ELSE (29 * n + 61 * k + 97 * i) % 256]

\* Signature.getNormalizedV of ethers: 0 and 27 are 27, 1 and 28 are 28,
\* an EIP-155 v (35 and up) is 27 when odd and 28 when even; 0 is invalid.
NormalizedV(v) ==
    IF v = 0 \/ v = 27 THEN 27
    ELSE IF v = 1 \/ v = 28 THEN 28
    ELSE IF v >= 35 THEN (IF v % 2 = 1 THEN 27 ELSE 28)
    ELSE 0

\* The signature a text decodes to: r, s and the normalised v.
SignatureValue(bytes) == <<SubSeq(bytes, 1, 64), NormalizedV(bytes[65])>>

\* ethers.verifyMessage(message, signature) for a signature text of 132
\* characters that starts with 0x: it throws on text that is no hex and on
\* an invalid v, and otherwise recovers an address: the signer's when the
\* signature is one made over this message, an unrelated one when not.
verifyMessage(message, signature) ==
    LET hex == SubSeq(signature, 3, Len(signature))
        bytes == BufferFromHex(hex)
    IN IF \E p \in 1..Len(hex) : HexVal(hex[p]) < 0
       THEN [threw |-> TRUE, address |-> Undef]
       ELSE IF NormalizedV(bytes[65]) = 0
       THEN [threw |-> TRUE, address |-> Undef]
       ELSE IF \E k \in Keys, i \in SignedResultIds :
                  /\ SignatureValue(SignatureBytes(k, i)) = SignatureValue(bytes)
                  /\ SignerText(i) = message
       THEN [threw |-> FALSE,
             address |-> Encode(KeyAddress(
                 CHOOSE k \in Keys : \E i \in SignedResultIds :
                    /\ SignatureValue(SignatureBytes(k, i)) = SignatureValue(bytes)
                    /\ SignerText(i) = message), "0xupper")]
       ELSE [threw |-> FALSE, address |-> Encode(UnrelatedAddress, "0xupper")]

SignatureOutcome(verified, error) ==
    [threw |-> FALSE, verified |-> verified, error |-> error]

\* The catch block of verifyResultSignature threw itself.
SignatureThrew == [threw |-> TRUE, verified |-> FALSE, error |-> "TypeError"]

\* An address comparison that is case-sensitive.
AddressTextEqual(recovered, claimed) == recovered = claimed

\* recoveredAddress.toLowerCase() === signingAddress.toLowerCase()
AddressMatches(recovered, claimed) ==
    ToLowerCase(recovered) = ToLowerCase(claimed)

\* The catch block of verifyResultSignature: it reads signature?.length and
\* calls signature?.substring(0, 20), which is no function on a value that
\* is neither a string nor null/undefined.
SignatureCatch(signature, msg) ==
    IF signature = NumberValue THEN SignatureThrew
    ELSE SignatureOutcome(FALSE, msg)

\* verifyResultSignature(result, signature, signingAddress)
verifyResultSignature(result, signature, signingAddress) ==
    LET analyticsResult ==
            IF Truthy(result) /\ Truthy(Prop(result, "result"))
            THEN Prop(result, "result") ELSE result
        resultJson == Stringify(sortKeysRecursively(analyticsResult))
        signatureWithPrefix ==
            IF StartsWith0x(signature) THEN signature
            ELSE <<"0", "x">> \o signature
        recovered == verifyMessage(resultJson, signatureWithPrefix)
    IN IF \/ ~Truthy(analyticsResult)
          \/ /\ ~Truthy(Prop(analyticsResult, "risk_metrics"))
             /\ ~Truthy(Prop(analyticsResult, "privacy_budget"))
       THEN SignatureOutcome(FALSE, "Invalid result structure")
       ELSE IF ~IsString(signature)
       THEN SignatureCatch(signature, "signature.startsWith is not a function")
       ELSE IF Len(signatureWithPrefix) # 132
       THEN SignatureOutcome(FALSE, "Invalid signature length")
       ELSE IF recovered.threw
       THEN SignatureCatch(signature, "invalid signature")
       ELSE IF ~IsString(signingAddress)
       THEN SignatureCatch(signature, "signingAddress.toLowerCase is not a function")
       ELSE SignatureOutcome(AddressMatches(recovered.address, signingAddress), "")

\* A signature as a caller hands it over: the signature of key `key` over
\* SignerText(msg), written as hex, after one mutation `mut` at character
\* `pos` of its 130 hex digits:
\*   none     unchanged
\*   digit    the hex digit replaced by the next one (another value)
\*   case     the hex letter written in upper case (the same value)
\*   nonhex   the character replaced by one that is no hex digit
\*   short    the last character dropped
\*   absent   no signature at all;  number: a JSON number in its place
SignatureText(sig) ==
    LET base == ToHex(SignatureBytes(sig.key, sig.msg))
        text ==
            CASE sig.mut = "none" -> base
              [] sig.mut = "digit" ->
                    [base EXCEPT ![sig.pos] =
                        LowerDigits[((HexVal(base[sig.pos]) + 1) % 16) + 1]]
              [] sig.mut = "case" ->
                    [base EXCEPT ![sig.pos] = ToUpperCase(<<base[sig.pos]>>)[1]]
              [] sig.mut = "nonhex" -> [base EXCEPT ![sig.pos] = "g"]
              [] sig.mut = "short" -> SubSeq(base, 1, Len(base) - 1)
              [] sig.mut = "absent" -> Undef
              [] sig.mut = "number" -> NumberValue
    IN IF sig.prefixed /\ IsString(text) THEN <<"0", "x">> \o text ELSE text

SigChars == 1..130

\* The letters among the hex digits of the model's signatures.
IsLetterAt(k, i, pos) == HexVal(ToHex(SignatureBytes(k, i))[pos]) >= 10

\* The signature arguments of the signature check alone.
MutatedSignatures ==
    [key : {1}, msg : {1}, mut : {"digit", "nonhex"}, pos : SigChars,
     prefixed : {FALSE}]
    \cup {sig \in [key : {1}, msg : {1}, mut : {"case"}, pos : SigChars,
                   prefixed : {FALSE}] : IsLetterAt(1, 1, sig.pos)}
    \cup [key : {1}, msg : {1}, mut : {"short", "absent", "number"},
          pos : {1}, prefixed : {FALSE, TRUE}]

GenuineSignatures ==
    [key : Keys, msg : SignedResultIds, mut : {"none"}, pos : {1},
     prefixed : {FALSE, TRUE}]

\* The claimed signing_address: a key's address in one of its spellings.
ClaimedAddresses ==
    [key : Keys, style : {"0xlower", "0xupper", "lower"}]

\* The calls of verifyResultSignature that are checked: every single
\* mutation of one signature against its own result and address, and every
\* unmutated signature against every result and claimed address.
SignatureInputs ==
    [sig : MutatedSignatures, form : {"sorted", "permuted"}, msg : {1},
     claimed : [key : {1}, style : {"0xlower", "0xupper"}]]
    \cup
    [sig : GenuineSignatures, form : ResultForms, msg : SignedResultIds,
     claimed : ClaimedAddresses]

SigInit ==
    /\ sin \in SignatureInputs
    /\ sout = <<>>

\* One call of verifyResultSignature.
RunSignature ==
    /\ sout = <<>>
    /\ sout' = <<verifyResultSignature(
                    ResultValue(sin.form, sin.msg),
                    SignatureText(sin.sig),
                    Encode(KeyAddress(sin.claimed.key), sin.claimed.style))>>
    /\ UNCHANGED sin

(***************************************************************************)
(*                          verifyAttestation                              *)
(***************************************************************************)

TdxOutcome(verified, error, intelResult, note) ==
    [verified |-> verified, error |-> error, intelResult |-> intelResult,
     note |-> note]

\* What the POST to the quote oracle can end with: a network failure, a
\* null body, or a body; of a body the verifier reads quote, quote.verified
\* (true, false, or the string 'true') and quote.body.reportdata.
OracleAnswers ==
    [kind : {"fail", "null"}, hasQuote : {FALSE}, verified : {"false"},
     reportBytes : {<<>>}]
    \cup [kind : {"data"}, hasQuote : {FALSE}, verified : {"false"},
          reportBytes : {<<>>}]
    \cup [kind : {"data"}, hasQuote : {TRUE},
          verified : {"true", "false", "'true'"},
          reportBytes : {SampleReportData, MutateByte(SampleReportData, 1),
                         MutateByte(SampleReportData, 64), <<>>}]

\* The outcome of a failed oracle call given for a missing quote.
QuoteMissingAsFailure ==
    TdxOutcome(FALSE, "timeout of 30000ms exceeded", NoIntelResult,
               "TDX quote verification failed - may be in simulation mode")

\* verifyAttestation, no intel_quote:
\* { verified: false, error: 'Intel quote missing' }
QuoteMissing == TdxOutcome(FALSE, "Intel quote missing", NoIntelResult, "")

\* verifyTdxQuote(intelQuote), given what the oracle call ends with when it
\* is made.
verifyTdxQuote(intelQuote, answer) ==
    IF Falsy(intelQuote)
    THEN TdxOutcome(FALSE,
                    "Intel quote is null (simulation mode - no TEE hardware)",
                    NoIntelResult,
                    "TDX quote verification requires actual TEE hardware")
    ELSE IF answer.kind = "fail"
    THEN TdxOutcome(FALSE, "timeout of 30000ms exceeded", NoIntelResult,
                    "TDX quote verification failed - may be in simulation mode")
    ELSE IF answer.kind = "null"
    THEN TdxOutcome(FALSE, "Cannot read properties of null", NoIntelResult,
                    "TDX quote verification failed - may be in simulation mode")
    ELSE TdxOutcome(answer.hasQuote /\ answer.verified = "true", "",
                    IntelResult(answer.hasQuote, answer.verified,
                                IF answer.reportBytes = <<>> THEN Undef
                                ELSE ToHex(answer.reportBytes)),
                    "")

\* A verdict that asks for every check.
OverallAllChecks(hasValidSignature, hasValidTdxQuote, hasValidBinding, noQuote) ==
    hasValidSignature /\ hasValidTdxQuote /\ hasValidBinding

\* verificationResults.overall =
\*     hasValidSignature && (hasValidTdxQuote || !attestation.intel_quote)
Overall(hasValidSignature, hasValidTdxQuote, hasValidBinding, noQuote) ==
    hasValidSignature /\ (hasValidTdxQuote \/ noQuote)

\* { verified: false, error: 'Missing signature components' }
MissingSignatureComponents ==
    SignatureOutcome(FALSE, "Missing signature components")

\* The attestation's signing_address and the request nonce as text.
ClaimedText(c) ==
    IF c.style = "absent" THEN Undef ELSE Encode(KeyAddress(c.key), c.style)

NonceText(n) ==
    IF n.style = "absent" THEN Undef ELSE Encode(n.bytes, n.style)

\* A binding check made whenever the oracle returned a result.
BindingCheckedWithoutNonce(tdxQuote, requestNonce) ==
    tdxQuote.intelResult.present

\* if (verificationResults.tdxQuote.intelResult && requestNonce)
BindingIsChecked(tdxQuote, requestNonce) ==
    tdxQuote.intelResult.present /\ ~Falsy(requestNonce)

\* verifyAttestation from step 2 on, with the tdxQuote of step 1: the
\* verificationResults object, or a throw.  reportDataBinding is <<>> when
\* it stays null.
FinishVerification(in, tdxQuote) ==
    LET signature == SignatureText(in.sig)
        signingAddress == ClaimedText(in.claimed)
        requestNonce == NonceText(in.nonce)
        result == ResultValue(in.form, in.msg)
        binding ==
            IF BindingIsChecked(tdxQuote, requestNonce)
            THEN <<verifyReportDataBinding(signingAddress, requestNonce,
                                           tdxQuote.intelResult)>>
            ELSE <<>>
        resultSignature ==
            IF ~Falsy(signature) /\ ~Falsy(signingAddress) /\ Truthy(result)
            THEN verifyResultSignature(result, signature, signingAddress)
            ELSE MissingSignatureComponents
        hasValidBinding ==
            binding # <<>> /\ binding[1].bindsAddress /\ binding[1].embedsNonce
    IN [threw |-> resultSignature.threw,
        tdxQuote |-> tdxQuote,
        reportDataBinding |-> binding,
        resultSignature |-> resultSignature,
        overall |-> Overall(resultSignature.verified, tdxQuote.verified,
                            hasValidBinding, Falsy(in.intel_quote))]

\* A handler that passes on the request's nonce only.
RequestNonceOnly(requestNonce, attestationNonce) == requestNonce

\* requestNonce || attestation.nonce
NonceForBinding(requestNonce, attestationNonce) ==
    IF Falsy(NonceText(requestNonce)) THEN attestationNonce ELSE requestNonce

\* await verifyAttestation(attestation, result,
\*                         requestNonce || attestation.nonce)
VerificationOf(req, answer) ==
    FinishVerification(
        [intel_quote |-> req.intel_quote, sig |-> req.sig, form |-> req.form,
         msg |-> req.msg, claimed |-> req.claimed,
         nonce |-> NonceForBinding(req.requestNonce, req.attestationNonce)],
        IF Falsy(req.intel_quote) THEN QuoteMissing
        ELSE verifyTdxQuote(req.intel_quote, answer))

\* The verification requests that are checked.
VerifyInputs ==
    [intel_quote : {Undef, <<>>, <<"q">>},
     sig : [key : {1}, msg : {1},
            mut : {"none", "digit", "short", "nonhex", "absent", "number"},
            pos : {1}, prefixed : {FALSE}],
     form : {"sorted", "nometrics", "absent"},
     msg : SignedResultIds,
     claimed : [key : Keys, style : {"0xlower"}]
               \cup {[key |-> 1, style |-> "absent"]},
     nonce : [bytes : {SampleNonce, MutateByte(SampleNonce, 32)},
              style : {"lower"}]
             \cup {[bytes |-> SampleNonce, style |-> "absent"]}]

VerInit ==
    /\ vin \in VerifyInputs
    /\ vpc = "start"
    /\ vres = <<>>

\* verifyAttestation ended: by returning verificationResults or by throwing.
Return(r) ==
    /\ vpc' = IF r.threw THEN "threw" ELSE "done"
    /\ vres' = IF r.threw THEN <<>> ELSE <<r>>
    /\ UNCHANGED vin

\* verifyAttestation of an attestation without intel_quote: it runs to its
\* return without suspending.
VerifyWithoutQuote ==
    /\ vpc = "start"
    /\ Falsy(vin.intel_quote)
    /\ Return(FinishVerification(vin, QuoteMissing))

\* verifyAttestation of an attestation with intel_quote, up to the await of
\* the oracle call in verifyTdxQuote.
VerifyCallsOracle ==
    /\ vpc = "start"
    /\ ~Falsy(vin.intel_quote)
    /\ vpc' = "oracle"
    /\ UNCHANGED <<vin, vres>>

\* The oracle call ended with `answer`: verifyAttestation runs to its return.
OracleDone(answer) ==
    /\ vpc = "oracle"
    /\ Return(FinishVerification(vin,
                                 verifyTdxQuote(vin.intel_quote, answer)))

VerIdle == vin = NULL /\ vpc = NULL /\ vres = NULL
BindIdle == bin = NULL /\ bout = NULL
SigIdle == sin = NULL /\ sout = NULL

ApiIdle == lastSubmit = NoExchange
QueryIdle == lastQuery = NULL
CanonIdle == cin = NULL /\ cout = NULL
NoiseIdle == nin = NULL /\ nout = NULL
PollIdle == poller = NULL
RestIdle == QueryIdle /\ CanonIdle /\ NoiseIdle /\ PollIdle
Init == JobInit /\ VerIdle /\ BindIdle /\ SigIdle /\ ApiIdle /\ RestIdle

Next ==
    \/ \E d \in DataInputs :
          SubmitRejected(d) /\ UNCHANGED <<verVars, bindVars, sigVars, apiVars,
                         queryVars, canonVars, noiseVars, pollVars>>
    \/ \E d \in DataInputs, e \in EpsilonInputs :
          Submit(d, e) /\ UNCHANGED <<verVars, bindVars, sigVars, apiVars,
                         queryVars, canonVars, noiseVars, pollVars>>
    \/ \E j \in JobIds, ok \in BOOLEAN :
          HealthDone(j, ok) /\ UNCHANGED <<verVars, bindVars, sigVars, apiVars,
                         queryVars, canonVars, noiseVars, pollVars>>
    \/ \E j \in JobIds, o \in AnalyzeOutcomes :
          AnalyzeDone(j, o) /\ UNCHANGED <<verVars, bindVars, sigVars, apiVars,
                         queryVars, canonVars, noiseVars, pollVars>>
    \/ \E j \in JobIds :
          BackoffDone(j) /\ UNCHANGED <<verVars, bindVars, sigVars, apiVars,
                         queryVars, canonVars, noiseVars, pollVars>>
    \/ \E j \in JobIds :
          GetJob(j) /\ UNCHANGED <<verVars, bindVars, sigVars, apiVars,
                         queryVars, canonVars, noiseVars, pollVars>>

Spec == Init /\ [][Next]_vars

\* The binding check alone: every call in BindingInputs.
InitBind == BindInit /\ JobInit /\ VerIdle /\ SigIdle /\ ApiIdle /\ RestIdle
NextBind == RunBinding /\ UNCHANGED <<jobVars, verVars, sigVars, apiVars,
                         queryVars, canonVars, noiseVars, pollVars>>
SpecBind == InitBind /\ [][NextBind]_vars

\* The signature check alone: every call in SignatureInputs.
InitSig == SigInit /\ JobInit /\ VerIdle /\ BindIdle /\ ApiIdle /\ RestIdle
NextSig == RunSignature /\ UNCHANGED <<jobVars, verVars, bindVars, apiVars,
                         queryVars, canonVars, noiseVars, pollVars>>
SpecSig == InitSig /\ [][NextSig]_vars

\* The verifier alone: one verifyAttestation call per behaviour.
InitVerify == VerInit /\ JobInit /\ BindIdle /\ SigIdle /\ ApiIdle /\ RestIdle
NextVerify ==
    \/ VerifyWithoutQuote /\ UNCHANGED <<jobVars, bindVars, sigVars, apiVars,
                         queryVars, canonVars, noiseVars, pollVars>>
    \/ VerifyCallsOracle /\ UNCHANGED <<jobVars, bindVars, sigVars, apiVars,
                         queryVars, canonVars, noiseVars, pollVars>>
    \/ \E a \in OracleAnswers :
          OracleDone(a) /\ UNCHANGED <<jobVars, bindVars, sigVars, apiVars,
                         queryVars, canonVars, noiseVars, pollVars>>
SpecVerify == InitVerify /\ [][NextVerify]_vars

\* The continuation of job j's processJob call: the network call or timer it
\* awaits has returned, failed or fired.
Resume(j) ==
    /\ \/ \E ok \in BOOLEAN : HealthDone(j, ok)
       \/ \E o \in AnalyzeOutcomes : AnalyzeDone(j, o)
       \/ BackoffDone(j)
    /\ UNCHANGED <<verVars, bindVars, sigVars, apiVars,
                         queryVars, canonVars, noiseVars, pollVars>>

\* The orchestrator when every network call eventually returns or times out
\* (axios timeouts of 10 s and 120 s) and every timer eventually fires.
SpecLive == Init /\ [][Next]_vars /\ \A j \in JobIds : WF_vars(Resume(j))

\* The orchestrator with the responses of POST /api/submit recorded.
NextSubmit ==
    \/ \E d \in DataInputs :
          SubmitRefused(d) /\ UNCHANGED <<verVars, bindVars, sigVars, queryVars, canonVars,
                                        noiseVars, pollVars>>
    \/ \E d \in DataInputs, e \in EpsilonInputs :
          SubmitAnswered(d, e) /\ UNCHANGED <<verVars, bindVars, sigVars, queryVars, canonVars,
                                        noiseVars, pollVars>>
    \/ \E j \in JobIds, ok \in BOOLEAN :
          HealthDone(j, ok) /\ UNCHANGED <<verVars, bindVars, sigVars, apiVars,
                         queryVars, canonVars, noiseVars, pollVars>>
    \/ \E j \in JobIds, o \in AnalyzeOutcomes :
          AnalyzeDone(j, o) /\ UNCHANGED <<verVars, bindVars, sigVars, apiVars,
                         queryVars, canonVars, noiseVars, pollVars>>
    \/ \E j \in JobIds :
          BackoffDone(j) /\ UNCHANGED <<verVars, bindVars, sigVars, apiVars,
                         queryVars, canonVars, noiseVars, pollVars>>
    \/ \E j \in JobIds :
          GetJob(j) /\ UNCHANGED <<verVars, bindVars, sigVars, apiVars,
                         queryVars, canonVars, noiseVars, pollVars>>
SpecSubmit == Init /\ [][NextSubmit]_vars

\* Canonicalization alone: every value of CanonInputs.
InitCanon ==
    /\ CanonInit /\ JobInit /\ VerIdle /\ BindIdle /\ SigIdle /\ ApiIdle
    /\ QueryIdle /\ NoiseIdle /\ PollIdle
NextCanon ==
    RunCanon /\ UNCHANGED <<jobVars, verVars, bindVars, sigVars, apiVars,
                         queryVars, noiseVars, pollVars>>
SpecCanon == InitCanon /\ [][NextCanon]_vars

\* The nonce a verification request or an attestation carries: the nonce
\* of the original analytics request, another one, or none.
NonceChoices ==
    [bytes : {SampleNonce, MutateByte(SampleNonce, 32)}, style : {"lower"}]
    \cup {[bytes |-> SampleNonce, style |-> "absent"]}

\* The bodies of POST /api/verify that differ in their nonces: a quoted
\* attestation of either key, unsigned, with a result.
NonceRequests ==
    [hasAttestation : {TRUE},
     intel_quote : {<<"q">>},
     sig : [key : {1}, msg : {1}, mut : {"absent"}, pos : {1},
            prefixed : {FALSE}],
     form : {"sorted"},
     msg : {1},
     claimed : [key : Keys, style : {"0xlower"}],
     requestNonce : NonceChoices,
     attestationNonce : NonceChoices]

NonceInit ==
    /\ vin \in NonceRequests
    /\ vpc = "start"
    /\ vres = <<>>

\* app.post('/api/verify') up to res.json: the details it answers with.
VerifyHandled(answer) ==
    /\ vpc = "start"
    /\ vpc' = "done"
    /\ vres' = <<VerificationOf(vin, answer)>>
    /\ UNCHANGED vin

\* POST /api/verify alone, for every nonce of request and attestation.
InitNonce ==
    /\ NonceInit /\ JobInit /\ BindIdle /\ SigIdle /\ ApiIdle /\ RestIdle
NextNonce ==
    \E a \in OracleAnswers :
        VerifyHandled(a) /\ UNCHANGED <<jobVars, bindVars, sigVars, apiVars,
                                     queryVars, canonVars, noiseVars, pollVars>>
SpecNonce == InitNonce /\ [][NextNonce]_vars

(***************************************************************************)
(*                     THE WEB CLIENT'S STATUS POLLING                     *)
(*                                                                         *)
(* The effect of the Home component that runs when jobId changes: it sets  *)
(* an interval timer whose callback GETs /api/job/:jobId every 2 s, and    *)
(* its cleanup clears that timer.  The callbacks are asynchronous, so a    *)
(* poll can still be in flight when the next tick fires.                   *)
(***************************************************************************)

MaxPollJobs == 2
MaxPolls == 3
MaxInFlight == 2

\* What a poll ends with: the status of the record in a 200 response, or an
\* error (a 404, a network failure).
PollOutcomes == {"processing", "completed", "failed", "error"}

\* const pollInterval = setInterval(async () => {...}, 2000) for a job: the
\* timer, the polls it has issued, those still in flight, and what the
\* latest poll to end ended with.
NewTimer(jobId) ==
    [job |-> jobId, active |-> TRUE, ticks |-> 0, inflight |-> 0,
     last |-> "none"]

\* clearInterval(pollInterval)
clearInterval(timer) == [timer EXCEPT !.active = FALSE]

\* A callback that leaves the timer running when the request fails.
StopsOnStatusOnly(outcome) == outcome \in {"completed", "failed"}

\* job.status === 'completed' || job.status === 'failed', and the catch
StopsPolling(outcome) == outcome \in {"completed", "failed", "error"}

PollInit == poller = [jobId |-> 0, timers |-> <<>>]

\* setJobId(response.data.jobId) with the id of a new job: React runs the
\* cleanup of the previous effect and then the effect for the new id.
SetJobId ==
    /\ Len(poller.timers) < MaxPollJobs
    /\ LET id == Len(poller.timers) + 1
           cleaned == [k \in DOMAIN poller.timers |->
                          IF poller.timers[k].job = poller.jobId
                          THEN clearInterval(poller.timers[k])
                          ELSE poller.timers[k]]
       IN poller' = [jobId |-> id, timers |-> Append(cleaned, NewTimer(id))]

\* The timer fires: the callback runs up to its await of axios.get.
Tick(k) ==
    /\ k \in DOMAIN poller.timers
    /\ poller.timers[k].active
    /\ poller.timers[k].ticks < MaxPolls
    /\ poller.timers[k].inflight < MaxInFlight
    /\ poller' = [poller EXCEPT !.timers[k].ticks = @ + 1,
                                !.timers[k].inflight = @ + 1]

\* A poll of timer k ended: the rest of the callback.
PollReturned(k, outcome) ==
    /\ k \in DOMAIN poller.timers
    /\ poller.timers[k].inflight > 0
    /\ LET t == [poller.timers[k] EXCEPT !.inflight = @ - 1,
                                        !.last = outcome]
       IN poller' = [poller EXCEPT !.timers[k] =
                        IF StopsPolling(outcome) THEN clearInterval(t) ELSE t]

\* The client alone, with every answer a poll can get.
InitPoll ==
    /\ PollInit /\ JobInit /\ VerIdle /\ BindIdle /\ SigIdle /\ ApiIdle
    /\ QueryIdle /\ CanonIdle /\ NoiseIdle
PollFrame ==
    UNCHANGED <<jobVars, verVars, bindVars, sigVars, apiVars, queryVars,
                canonVars, noiseVars>>
NextPoll ==
    \/ SetJobId /\ PollFrame
    \/ \E k \in 1..MaxPollJobs : Tick(k) /\ PollFrame
    \/ \E k \in 1..MaxPollJobs, o \in PollOutcomes :
          PollReturned(k, o) /\ PollFrame
SpecPoll == InitPoll /\ [][NextPoll]_vars

(***************************************************************************)
(*                  POST-PROCESSING OF THE NOISED BUCKETS                  *)
(*                                                                         *)
(* The enclave's release of the low / medium / high risk percentages       *)
(* after noise was added: clamp low to [0,100], clamp medium to [0,100],   *)
(* set high = 100 - low - medium clipped to >= 0.  Percentages are whole   *)
(* numbers here; a noise draw is any value a little below 0 to a little    *)
(* above 100.                                                              *)
(***************************************************************************)

NoiseSteps == 15

\* The noised percentages: -20, -10, ..., in steps of ten.
NoisedValues == {10 * k - 20 : k \in 0..NoiseSteps}

NoiseInputs == [low : NoisedValues, medium : NoisedValues]

\* Clamp a percentage to [0, 100].
Clamp(x) == IF x < 0 THEN 0 ELSE IF x > 100 THEN 100 ELSE x

\* Clamp low, then medium, then high = 100 - low - medium clipped to >= 0.
PostProcess(noised) ==
    LET low == Clamp(noised.low)
        medium == Clamp(noised.medium)
        rest == 100 - low - medium
    IN [low |-> low, medium |-> medium,
        high |-> IF rest < 0 THEN 0 ELSE rest]

NoiseInit ==
    /\ nin \in NoiseInputs
    /\ nout = <<>>

\* One release of the three percentages.
RunPostProcess ==
    /\ nout = <<>>
    /\ nout' = <<PostProcess(nin)>>
    /\ UNCHANGED nin

InitNoise ==
    /\ NoiseInit /\ JobInit /\ VerIdle /\ BindIdle /\ SigIdle /\ ApiIdle
    /\ QueryIdle /\ CanonIdle /\ PollIdle
NextNoise ==
    RunPostProcess /\ UNCHANGED <<jobVars, verVars, bindVars, sigVars, apiVars,
                               queryVars, canonVars, pollVars>>
SpecNoise == InitNoise /\ [][NextNoise]_vars

(***************************************************************************)
(*                       READ-ONLY REQUEST HANDLERS                        *)
(* GET /api/job/:jobId, GET /api/attestation, GET /api/health and          *)
(* POST /api/verify hold no state between their awaits: each is one step   *)
(* from the request to the response.                                       *)
(***************************************************************************)

\* A request and its response, as far as a client sees them.
Query(kind, jobId, response) ==
    [kind |-> kind, jobId |-> jobId, code |-> response.code,
     job |-> response.job, error |-> response.error,
     verified |-> response.verified, tee |-> response.tee]

Response(code, job, error, verified, tee) ==
    [code |-> code, job |-> job, error |-> error, verified |-> verified,
     tee |-> tee]

\* No request yet.
NoQuery == Query("none", 0, Response(0, <<>>, NULL, FALSE, NULL))

\* The ids a status query may name: 0 is never issued.
QueryIds == {0} \cup JobIds

\* A status response that answers 200 for any id.
GetJobResponseNeverMissing(j) ==
    IF j \in DOMAIN jobResults
    THEN Response(200, <<ReadJob(jobResults[j])>>, NULL, FALSE, NULL)
    ELSE Response(200, <<>>, NULL, FALSE, NULL)

\* app.get('/api/job/:jobId'): res.status(404).json({ error: 'Job not found' })
\* or res.json(job)
GetJobResponse(j) ==
    IF j \in DOMAIN jobResults
    THEN Response(200, <<ReadJob(jobResults[j])>>, NULL, FALSE, NULL)
    ELSE Response(404, <<>>, "Job not found", FALSE, NULL)

JobQueried(j) ==
    /\ GetJob(j)
    /\ lastQuery' = Query("job", j, GetJobResponse(j))

\* What the GET to the compute service's /attestation or /health ends with.
TeeOutcomes == {"answer", "unavailable"}

\* app.get('/api/attestation'): the bundle of the compute service, or 500.
GetAttestationResponse(o) ==
    IF o = "answer"
    THEN Response(200, <<>>, NULL, FALSE, "bundle")
    ELSE Response(500, <<>>, "connect ECONNREFUSED", FALSE, NULL)

\* An attestation fetch that stamps the jobs in the store.
GetAttestationStamps(o) ==
    /\ jobResults' = [k \in DOMAIN jobResults |->
                         [jobResults[k] EXCEPT !.attestation = "bundle"]]
    /\ UNCHANGED <<jobQueue, task>>

GetAttestation(o) == UNCHANGED <<jobQueue, jobResults, task>>

AttestationFetched(o) ==
    /\ GetAttestation(o)
    /\ lastQuery' = Query("attestation", 0, GetAttestationResponse(o))

\* app.get('/api/health'): always { status: 'healthy', tee_service }, where a
\* failed probe of the compute service gives { status: 'unavailable' }.
GetHealthResponse(o) ==
    Response(200, <<>>, NULL, FALSE,
             IF o = "answer" THEN "healthy" ELSE "unavailable")

GetHealth(o) == UNCHANGED <<jobQueue, jobResults, task>>

HealthChecked(o) ==
    /\ GetHealth(o)
    /\ lastQuery' = Query("health", 0, GetHealthResponse(o))

\* The bodies of POST /api/verify that are checked: with or without an
\* attestation, a result and a quote, and with a signature that is missing
\* or a number (the verdicts of signed attestations are those of
\* SpecVerify), and no nonce.
VerifyRequests ==
    [hasAttestation : BOOLEAN,
     intel_quote : {Undef, <<"q">>},
     sig : [key : {1}, msg : {1}, mut : {"absent", "number"},
            pos : {1}, prefixed : {FALSE}],
     form : {"sorted", "absent"},
     msg : {1},
     claimed : {[key |-> 1, style |-> "0xlower"]},
     requestNonce : {[bytes |-> SampleNonce, style |-> "absent"]},
     attestationNonce : {[bytes |-> SampleNonce, style |-> "absent"]}]

\* The oracle answers tried with them: a failed call, and a verified quote.
VerifyRequestAnswers ==
    {a \in OracleAnswers :
        \/ a.kind = "fail"
        \/ a.hasQuote /\ a.verified = "true" /\ a.reportBytes = SampleReportData}

\* app.post('/api/verify'): 400 without attestation or result; 500 when the
\* debug log or verifyAttestation throws; else { verified: overall, details }.
PostVerifyResponse(req, answer) ==
    IF ~req.hasAttestation \/ ~Truthy(ResultValue(req.form, req.msg))
    THEN Response(400, <<>>, "Missing attestation or result", FALSE, NULL)
    ELSE IF SignatureText(req.sig) = NumberValue
    THEN Response(500, <<>>, "substring is not a function", FALSE, NULL)
    ELSE LET r == VerificationOf(req, answer)
         IN IF r.threw
            THEN Response(500, <<>>, "TypeError", FALSE, NULL)
            ELSE Response(200, <<>>, NULL, r.overall, NULL)

PostVerify(req, answer) == UNCHANGED <<jobQueue, jobResults, task>>

VerifyPosted(req, answer) ==
    /\ PostVerify(req, answer)
    /\ lastQuery' = Query("verify", 0, PostVerifyResponse(req, answer))

\* The orchestrator together with the read-only requests and their
\* responses.
InitQuery ==
    /\ JobInit /\ VerIdle /\ BindIdle /\ SigIdle /\ ApiIdle
    /\ CanonIdle /\ NoiseIdle /\ PollIdle
    /\ lastQuery = NoQuery
NextQuery ==
    \/ \E d \in DataInputs, e \in EpsilonInputs :
          Submit(d, e) /\ UNCHANGED <<verVars, bindVars, sigVars, apiVars,
                         queryVars, canonVars, noiseVars, pollVars>>
    \/ \E j \in JobIds : Resume(j) /\ UNCHANGED lastQuery
    \/ \E j \in QueryIds :
          JobQueried(j) /\ UNCHANGED <<verVars, bindVars, sigVars, apiVars,
                         canonVars, noiseVars, pollVars>>
    \/ \E o \in TeeOutcomes :
          AttestationFetched(o) /\ UNCHANGED <<verVars, bindVars, sigVars,
                         apiVars, canonVars, noiseVars, pollVars>>
    \/ \E o \in TeeOutcomes :
          HealthChecked(o) /\ UNCHANGED <<verVars, bindVars, sigVars,
                         apiVars, canonVars, noiseVars, pollVars>>
    \/ \E req \in VerifyRequests, a \in VerifyRequestAnswers :
          VerifyPosted(req, a) /\ UNCHANGED <<verVars, bindVars, sigVars,
                         apiVars, canonVars, noiseVars, pollVars>>
SpecQuery == InitQuery /\ [][NextQuery]_vars

(***************************************************************************)
(*                     CLAIMS ON THE JOB ORCHESTRATOR                      *)
(***************************************************************************)

Terminal(job) == job.status \in {"completed", "failed"}

\* C1: a job's status only moves Pending -> Processing -> Completed or
\* Pending -> Processing -> Failed.  In every step, a job that enters the
\* store is Pending or Processing, and a stored job keeps its status or
\* moves Pending -> Processing, Processing -> Completed or
\* Processing -> Failed; nothing leaves Completed or Failed.
C1_StatusMoves ==
    [][\A j \in DOMAIN jobResults' :
          IF j \in DOMAIN jobResults
          THEN \/ jobResults'[j].status = jobResults[j].status
               \/ /\ jobResults[j].status = "pending"
                  /\ jobResults'[j].status = "processing"
               \/ /\ jobResults[j].status = "processing"
                  /\ jobResults'[j].status \in {"completed", "failed"}
          ELSE jobResults'[j].status \in {"pending", "processing"}]_vars

\* C1 witness: one job went to Completed and another to Failed.
C1_Witness ==
    \E j, k \in DOMAIN jobResults :
        /\ jobResults[j].status = "completed"
        /\ jobResults[k].status = "failed"
        /\ task[j].attempt > 1

\* C2: in every Completed job both result and attestation are set.
C2_CompletedHasResultAndAttestation ==
    \A j \in DOMAIN jobResults :
        jobResults[j].status = "completed" =>
            /\ jobResults[j].result # NULL
            /\ jobResults[j].attestation # NULL

\* C3: in every terminal state exactly one of {result, error} is set: a
\* Completed job has a result and no error, a Failed job has an error and
\* no result.
C3_ExactlyOneOfResultError ==
    \A j \in DOMAIN jobResults :
        /\ jobResults[j].status = "completed" =>
               (jobResults[j].result # NULL /\ jobResults[j].error = NULL)
        /\ jobResults[j].status = "failed" =>
               (jobResults[j].error # NULL /\ jobResults[j].result = NULL)

\* C4: when the compute service answers /analyze with an HTTP 4xx, the
\* retry loop ends at that attempt and the job ends in Failed.
C4_ClientErrorFailsJob ==
    \A j \in DOMAIN task :
        (task[j].pc = "done" /\ task[j].response \in 400..499) =>
            jobResults[j].status = "failed"

(***************************************************************************)
(*                       CLAIMS ON THE VERIFIER                            *)
(***************************************************************************)

\* The processJob call of job j ended by the throw of its last attempt: no
\* answer was ever assigned to `response`.
Exhausted(j) == task[j].pc = "done" /\ task[j].response = 0

\* C11: no job makes more than 5 analytics attempts, and a job fails by
\* retry exhaustion only after exactly 5 failed attempts (each of the first
\* four followed by a wait).
C11_AtMostFiveAttempts ==
    \A j \in DOMAIN task :
        /\ task[j].attempt <= 5
        /\ Exhausted(j) =>
              /\ task[j].attempt = 5
              /\ Len(task[j].waited) = 4
              /\ jobResults[j].status = "failed"

\* C11 witness: a job failed by exhaustion at its fifth attempt.
C11_Witness ==
    \E j \in DOMAIN task :
        Exhausted(j) /\ task[j].attempt = 5 /\ jobResults[j].status = "failed"

C14_ExhaustionFailsWithMessage ==
    \A j \in DOMAIN task :
        Exhausted(j) =>
            /\ jobResults[j].status = "failed"
            /\ jobResults[j].error \notin {NULL, ""}
            /\ jobResults[j].result = NULL
            /\ jobResults[j].attestation = NULL

\* C14 witness: a job whose five attempts failed, the last with a 503 that
\* carries an error text, is Failed with that text.
C14_Witness ==
    \E j \in DOMAIN task :
        /\ Exhausted(j)
        /\ Len(task[j].waited) = 4
        /\ jobResults[j].error = "Decryption failed"

\* C15: once a job's status is Completed or Failed, no later step changes
\* any field of that job record.
C15_TerminalRecordIsFrozen ==
    [][\A j \in DOMAIN jobResults :
          Terminal(jobResults[j]) => jobResults'[j] = jobResults[j]]_vars

\* C15 witness: one job is Failed while the processing of another one is
\* still between two attempts.
C15_Witness ==
    \E j, k \in DOMAIN jobResults :
        /\ jobResults[j].status = "failed"
        /\ task[k].pc = "backoff"

\* C16: any number of jobs may be in Processing at once, and every step of
\* one job's processing task leaves every other job's record and attempt
\* count (its whole frame) unchanged.
C16_StepsTouchOneJob ==
    [][\A j \in DOMAIN task :
          (task'[j] # task[j] \/ jobResults'[j] # jobResults[j])
            => \A k \in DOMAIN task \ {j} :
                  task'[k] = task[k] /\ jobResults'[k] = jobResults[k]]_vars

\* C16 witness: two jobs are in Processing at once, at different attempts.
C16_Witness ==
    \E j, k \in DOMAIN task :
        /\ jobResults[j].status = "processing"
        /\ jobResults[k].status = "processing"
        /\ task[j].attempt = 3
        /\ task[k].attempt = 1

\* C17: submission responds with {jobId, status: "pending"} without waiting
\* for any network call of the job's processing to finish, and the job is
\* already retrievable by that id when the response is sent.  In the step
\* that sends the response of an accepted submission, the job is in the
\* store under the id of the response and its processing is suspended at
\* its first network call (the health probe), before any attempt.
C17_SubmitAnswersAtOnce ==
    [][(lastSubmit' # lastSubmit /\ lastSubmit'.code = 200)
         => /\ lastSubmit'.status = "pending"
            /\ lastSubmit'.jobId \in DOMAIN jobResults'
            /\ lastSubmit'.jobId \notin DOMAIN jobResults
            /\ jobResults'[lastSubmit'.jobId].id = lastSubmit'.jobId
            /\ task'[lastSubmit'.jobId].pc = "health"
            /\ task'[lastSubmit'.jobId].attempt = 0]_vars

\* C17 witness: the second submission was answered with its job id while
\* the first job's processing is still waiting for the network.
C17_Witness ==
    /\ lastSubmit.code = 200
    /\ lastSubmit.jobId = 2
    /\ task[2].pc = "health"
    /\ task[1].pc = "analyze"

\* C20: a submission without records is rejected immediately with an error
\* response and leaves the state unchanged: no job record is created,
\* nothing is appended to the queue, and no compute call is made.
C20_NoDataIsRejected ==
    [][(lastSubmit' # lastSubmit /\ lastSubmit'.data = NULL)
         => /\ lastSubmit'.code = 400
            /\ lastSubmit'.error \notin {NULL, ""}
            /\ jobResults' = jobResults
            /\ jobQueue' = jobQueue
            /\ task' = task]_vars

\* C20 witness: a submission without data was answered 400 after one job
\* had been accepted, and there is still that one job only.
C20_Witness ==
    /\ lastSubmit.code = 400
    /\ lastSubmit.data = NULL
    /\ Len(jobQueue) = 1
    /\ DOMAIN jobResults = {1}
    /\ DOMAIN task = {1}

\* C18: assuming every network call eventually returns or times out, every
\* submitted job eventually reaches Completed or Failed.
C18_EveryJobEnds ==
    \A j \in JobIds :
        (j \in DOMAIN jobResults)
          ~> (j \in DOMAIN jobResults /\ Terminal(jobResults[j]))

\* C18 witness: a job that needed two retries has reached Completed.
C18_Witness ==
    \E j \in DOMAIN jobResults :
        /\ jobResults[j].status = "completed"
        /\ task[j].attempt = 3
        /\ task[j].pc = "done"

\* C19: every job record has epsilon > 0, and so has every compute request.
C19_EpsilonIsPositive ==
    \A j \in DOMAIN jobResults :
        /\ jobResults[j].epsilon > 0
        /\ task[j].payload.epsilon > 0

\* C21: each submission generates its own encryption key (and iv) exactly
\* once; that key is sent only in the attempts of the job it was generated
\* for and is never used for any other job.  The request payload of a job
\* carries the key its own token was made with, no two jobs' payloads carry
\* the same key, and a job's payload is the same in all its attempts.
C21_KeyPerJob ==
    /\ [](\A j \in DOMAIN task :
            /\ task[j].payload.key = task[j].payload.data[2]
            /\ \A k \in DOMAIN task \ {j} :
                  task[k].payload.key # task[j].payload.key)
    /\ [][\A j \in DOMAIN task : task'[j].payload = task[j].payload]_vars

\* C21 witness: two jobs are being processed, the first one in a retry.
C21_Witness ==
    /\ DOMAIN task = {1, 2}
    /\ task[1].attempt = 2
    /\ task[1].pc = "analyze"
    /\ task[2].pc = "analyze"

\* C22: no job record in the store, and so no status response, ever holds
\* the plaintext records or the encryption key; the record holds only id,
\* status, timestamps, epsilon, result, attestation and error.
C22_RecordHoldsNoSecret ==
    \A j \in DOMAIN jobResults :
        /\ DOMAIN jobResults[j] =
              {"id", "status", "createdAt", "completedAt", "epsilon",
               "result", "attestation", "error"}
        /\ \A f \in {"status", "result", "attestation", "error"} :
              jobResults[j][f] \notin DataInputs \ {NULL}
        /\ DOMAIN ReadJob(jobResults[j]) = DOMAIN jobResults[j]

\* C22 witness: a job submitted with records is Completed with its result.
C22_Witness ==
    \E j \in DOMAIN jobResults :
        /\ task[j].payload.data[3] = "records"
        /\ jobResults[j].status = "completed"
        /\ jobResults[j].result = "R"

\* C23: a status query for an issued job id returns that job's full current
\* record, and a query for an id that was not issued returns a not-found
\* error.
C23_StatusQueryAnswers ==
    [][(lastQuery' # lastQuery /\ lastQuery'.kind = "job")
         => IF lastQuery'.jobId \in DOMAIN jobResults
            THEN /\ lastQuery'.code = 200
                 /\ lastQuery'.job = <<jobResults[lastQuery'.jobId]>>
            ELSE /\ lastQuery'.code = 404
                 /\ lastQuery'.job = <<>>
                 /\ lastQuery'.error = "Job not found"]_vars

\* C23 witness: the latest status query returned the record of a job that
\* is Completed with its result.
C23_Witness ==
    /\ lastQuery.kind = "job"
    /\ lastQuery.code = 200
    /\ lastQuery.job # <<>>
    /\ lastQuery.jobId \in DOMAIN jobResults
    /\ lastQuery.job[1].status = "completed"
    /\ lastQuery.job[1].result = "R"

\* C24: status, attestation-fetch, health and verification requests leave
\* the job store unchanged, whatever their outcome.
C24_RequestsLeaveStore ==
    [][lastQuery' # lastQuery
         => /\ jobResults' = jobResults
            /\ jobQueue' = jobQueue
            /\ task' = task]_vars

\* C24 witness: a verification request was answered with a verdict while
\* a job is in the store.
C24_Witness ==
    /\ lastQuery.kind = "verify"
    /\ lastQuery.code = 200
    /\ DOMAIN jobResults = {1}
    /\ jobResults[1].status = "processing"

\* The value of CanonInputs with every object's keys inserted in order.
Identity3 == [i \in 1..3 |-> i]

\* C25: canonicalization (recursive key sort, then compact serialization)
\* is idempotent and gives the same output for any two values that differ
\* only in object key insertion order, at every nesting depth including
\* objects inside arrays.
C25_CanonicalFormIsStable ==
    /\ Len(cout) >= 1 =>
          Stringify(cout[1])
            = Stringify(sortKeysRecursively(
                            CanonValue(Identity3, Identity3, Identity3)))
    /\ Len(cout) = 2 =>
          /\ cout[2] = cout[1]
          /\ Stringify(cout[2]) = Stringify(cout[1])

\* C25 witness: a value whose keys were inserted in reverse order at every
\* depth was canonicalized twice.
C25_Witness ==
    /\ Len(cout) = 2
    /\ cin.inner = <<3, 2, 1>>
    /\ cin.nested = <<3, 2, 1>>
    /\ cin.top = <<3, 2, 1>>

\* The other spelling of a 0x-prefixed address: the same digits in the
\* other letter case.
OtherCase(style) == IF style = "0xlower" THEN "0xupper" ELSE "0xlower"

\* C26: the recovered signer address is compared with the claimed
\* signing_address ignoring letter case: two spellings of the same address
\* that differ only in case give the same signature verdict.
C26_AddressCaseIsIgnored ==
    (sout # <<>> /\ sin.claimed.style \in {"0xlower", "0xupper"}) =>
        sout[1] = verifyResultSignature(
                      ResultValue(sin.form, sin.msg),
                      SignatureText(sin.sig),
                      Encode(KeyAddress(sin.claimed.key),
                             OtherCase(sin.claimed.style)))

\* C26 witness: a genuine signature was accepted for the signer's address
\* written in lower case, while the recovered address has capital letters.
C26_Witness ==
    /\ sout # <<>>
    /\ sin.sig.mut = "none"
    /\ sin.claimed.style = "0xlower"
    /\ Encode(KeyAddress(sin.claimed.key), "0xlower")
         # Encode(KeyAddress(sin.claimed.key), "0xupper")
    /\ sout[1].verified

\* The network calls made so far: the probe and the attempts of every job.
Calls == {c \in JobIds \X (1..(maxRetries + 1)) :
            c[1] \in DOMAIN task /\ c[2] <= Len(task[c[1]].agents)}

\* C27: each analytics attempt uses a newly created connection agent with
\* keep-alive disabled; no agent is reused between two attempts of a job
\* or between the health probe and an attempt.
C27_FreshAgentPerCall ==
    /\ \A j \in DOMAIN task :
          /\ Len(task[j].agents) = task[j].attempt + 1
          /\ \A n \in DOMAIN task[j].agents : ~task[j].agents[n].keepAlive
    /\ \A c, d \in Calls :
          c # d => task[c[1]].agents[c[2]] # task[d[1]].agents[d[2]]

\* C27 witness: two jobs have each gone through the probe and all five
\* attempts.
C27_Witness ==
    /\ Len(task) = 2
    /\ \A j \in DOMAIN task : task[j].attempt = maxRetries

\* What a step of the orchestrator leaves alone.
OrchestratorFrame ==
    UNCHANGED <<verVars, bindVars, sigVars, apiVars, queryVars, canonVars,
                noiseVars, pollVars>>

\* C28: the privacy-budget ceiling is never enforced: whatever was submitted
\* before, a submission with data is accepted and not refused for any
\* epsilon, every unfinished job can take its next step, and a job fails
\* only after an analytics call.
C28_BudgetNeverEnforced ==
    /\ \A e \in EpsilonInputs :
          Len(jobQueue) < MaxJobs =>
              ENABLED (Submit("records", e) /\ OrchestratorFrame)
    /\ ~ENABLED (SubmitRejected("records") /\ OrchestratorFrame)
    /\ \A j \in DOMAIN task :
          /\ task[j].pc # "done" => ENABLED Resume(j)
          /\ jobResults[j].status = "failed" => task[j].attempt >= 1

\* C28 witness: a second job was accepted and completed after the first one
\* had spent an epsilon of one, with an epsilon of one of its own.
C28_Witness ==
    /\ Len(jobResults) = 2
    /\ jobResults[1].epsilon = 1
    /\ jobResults[2].epsilon = 1
    /\ jobResults[2].status = "completed"

\* C29: for every noise draw, after the post-processing each of the low,
\* medium and high risk-bucket percentages lies in [0,100] and the three sum
\* to exactly 100.
C29_BucketsSumToHundred ==
    nout # <<>> =>
        /\ \A b \in {nout[1].low, nout[1].medium, nout[1].high} :
              0 <= b /\ b <= 100
        /\ nout[1].low + nout[1].medium + nout[1].high = 100

\* C30: each job performs exactly one health probe, after entering
\* Processing and before its first analytics attempt; the probe, failed or
\* not, leaves the job in Processing, does not count as an attempt, and is
\* followed by the first analytics call.  A job is at its probe only with
\* no attempt made; it starts there, leaves it only for attempt 1 of the
\* analytics call, still Processing, and never comes back to it.
C30_OneProbeBeforeFirstAttempt ==
    /\ [](\A j \in DOMAIN task :
            /\ task[j].pc = "health" =>
                  /\ task[j].attempt = 0
                  /\ jobResults[j].status = "processing"
            /\ task[j].attempt = 0 => task[j].pc = "health")
    /\ [][\A j \in DOMAIN task' :
            IF j \notin DOMAIN task
            THEN task'[j].pc = "health"
            ELSE /\ task[j].pc # "health" => task'[j].pc # "health"
                 /\ (task[j].pc = "health" /\ task'[j] # task[j]) =>
                       /\ task'[j].pc = "analyze"
                       /\ task'[j].attempt = 1
                       /\ task'[j].waited = <<>>
                       /\ jobResults'[j].status = "processing"]_vars

\* C30 witness: a job is in its first analytics call after its probe while
\* another job, submitted earlier, is still at its probe.
C30_Witness ==
    /\ Len(task) = 2
    /\ task[1].pc = "health"
    /\ task[2].pc = "analyze"
    /\ task[2].attempt = 1
    /\ jobResults[2].status = "processing"

C34_PendingIsNeverSeen ==
    /\ [](\A j \in DOMAIN jobResults : jobResults[j].status # "pending")
    /\ []((lastQuery.kind = "job" /\ lastQuery.job # <<>>)
            => lastQuery.job[1].status # "pending")
    /\ [][\A j \in DOMAIN jobResults' \ DOMAIN jobResults :
            jobResults'[j].status = "processing"]_vars

\* C34 witness: a status query for a job whose processJob call has not got
\* past its first await was answered with the record, in Processing.
C34_Witness ==
    /\ lastQuery.kind = "job"
    /\ lastQuery.job # <<>>
    /\ lastQuery.jobId \in DOMAIN task
    /\ task[lastQuery.jobId].pc = "health"
    /\ lastQuery.job[1].status = "processing"

\* C35: job records are never removed: once a job id has been returned by
\* a submission, every later status query for it finds the record, and the
\* job queue only grows, holding every submitted job exactly once in
\* submission order.
C35_RecordsAreKept ==
    /\ [](/\ Len(jobQueue) = Len(jobResults)
          /\ \A i \in DOMAIN jobQueue :
                /\ jobResults[i].id = jobQueue[i]
                /\ \A k \in DOMAIN jobQueue : k # i => jobQueue[k] # jobQueue[i])
    /\ [][/\ Len(jobQueue') >= Len(jobQueue)
          /\ SubSeq(jobQueue', 1, Len(jobQueue)) = jobQueue
          /\ DOMAIN jobResults \subseteq DOMAIN jobResults'
          /\ \A j \in DOMAIN jobResults : jobResults'[j].id = jobResults[j].id]_vars
    /\ [][(lastQuery' # lastQuery /\ lastQuery'.kind = "job"
             /\ \E i \in DOMAIN jobQueue : jobQueue[i] = lastQuery'.jobId)
            => /\ lastQuery'.code = 200
               /\ lastQuery'.job # <<>>
               /\ lastQuery'.job[1].id = lastQuery'.jobId]_vars

\* C35 witness: the first job, long finished, was queried and found after a
\* second job had been submitted.
C35_Witness ==
    /\ jobQueue = <<1, 2>>
    /\ jobResults[1].status = "failed"
    /\ task[2].pc = "backoff"
    /\ lastQuery.kind = "job"
    /\ lastQuery.jobId = 1
    /\ lastQuery.code = 200
    /\ lastQuery.job[1].status = "failed"

\* C36: the client's status polling for a job stops as soon as a poll
\* returns status completed or failed, or a poll request errors; after that
\* no further poll is issued for that job, and starting to poll a new job id
\* cancels the poller of the previous one so at most one poller is active.
\* A timer is cleared by the step in which such a poll ends, a cleared timer
\* stays cleared and issues no poll, and the only timer that can be running
\* is the one of the current job id.
C36_PollingStops ==
    /\ [](\A k \in DOMAIN poller.timers :
            /\ poller.timers[k].last \in {"completed", "failed", "error"}
                  => ~poller.timers[k].active
            /\ poller.timers[k].active => poller.timers[k].job = poller.jobId
            /\ \A m \in DOMAIN poller.timers :
                  (poller.timers[k].active /\ poller.timers[m].active) => k = m)
    /\ [][\A k \in DOMAIN poller.timers :
            /\ ~poller.timers[k].active =>
                  /\ ~poller'.timers[k].active
                  /\ poller'.timers[k].ticks = poller.timers[k].ticks
            /\ poller'.timers[k].ticks # poller.timers[k].ticks =>
                  /\ poller.timers[k].last \in {"none", "processing"}
                  /\ poller.timers[k].job = poller.jobId]_vars

\* C36 witness: the timer of the first job was cleared by a failed request
\* while an earlier poll of it was still in flight, and the timer of the
\* second job has issued two polls.
C36_Witness ==
    /\ Len(poller.timers) = 2
    /\ ~poller.timers[1].active
    /\ poller.timers[1].last = "error"
    /\ poller.timers[1].inflight = 1
    /\ poller.timers[1].ticks < MaxPolls
    /\ poller.timers[2].active
    /\ poller.timers[2].ticks = 2

VerifyDone == vpc = "done"

\* C33: when a verification request omits requestNonce, the nonce used for
\* the binding check is the nonce field of the attestation being verified:
\* the binding is that of the attestation's own nonce, it is evaluated
\* exactly when the attestation has a nonce and the oracle returned a
\* result, and a request that has a nonce is checked against that one.
C33_AttestationNonceStandsIn ==
    (VerifyDone /\ vres[1].tdxQuote.intelResult.present) =>
        LET used == IF vin.requestNonce.style = "absent"
                    THEN vin.attestationNonce ELSE vin.requestNonce
        IN IF used.style = "absent"
           THEN vres[1].reportDataBinding = <<>>
           ELSE vres[1].reportDataBinding
                  = <<verifyReportDataBinding(ClaimedText(vin.claimed),
                                              NonceText(used),
                                              vres[1].tdxQuote.intelResult)>>

\* C33 witness: a request without requestNonce for an attestation whose
\* nonce field and report data both carry a nonce that is not the one of
\* the original request: the binding check reports the nonce as embedded.
C33_Witness ==
    /\ VerifyDone
    /\ vin.requestNonce.style = "absent"
    /\ vin.attestationNonce.style = "lower"
    /\ vin.attestationNonce.bytes # SampleNonce
    /\ vres[1].reportDataBinding # <<>>
    /\ vres[1].reportDataBinding[1].embedsNonce
    /\ vres[1].reportDataBinding[1].bindsAddress

\* C32: the report-data binding check is evaluated only when the quote
\* oracle returned a parsed result and a request nonce is available; in
\* every other case (no quote, oracle failure, no nonce) reportDataBinding
\* stays null and the overall verdict is computed without it.
C32_BindingOnlyWithResultAndNonce ==
    VerifyDone =>
        /\ vres[1].reportDataBinding # <<>>
              <=> /\ vres[1].tdxQuote.intelResult.present
                  /\ vin.nonce.style # "absent"
        /\ Falsy(vin.intel_quote) => vres[1].reportDataBinding = <<>>
        /\ vres[1].tdxQuote.error # "" => vres[1].reportDataBinding = <<>>
        /\ vres[1].reportDataBinding = <<>> =>
              (vres[1].overall <=>
                  /\ vres[1].resultSignature.verified
                  /\ (vres[1].tdxQuote.verified \/ Falsy(vin.intel_quote)))

\* C32 witness: the oracle verified the quote, the request had no nonce,
\* the binding stayed null and the overall verdict is true.
C32_Witness ==
    /\ VerifyDone
    /\ vres[1].tdxQuote.intelResult.present
    /\ vres[1].tdxQuote.verified
    /\ vin.nonce.style = "absent"
    /\ vres[1].reportDataBinding = <<>>
    /\ vres[1].overall

\* The quote oracle answered that the quote is verified.
QuoteVerifiedByOracle ==
    /\ vres[1].tdxQuote.intelResult.present
    /\ vres[1].tdxQuote.intelResult.hasQuote
    /\ vres[1].tdxQuote.intelResult.verified = "true"

C6_BindingFailureFailsOverall ==
    (VerifyDone /\ vres[1].reportDataBinding # <<>>
       /\ ~(vres[1].reportDataBinding[1].bindsAddress
            /\ vres[1].reportDataBinding[1].embedsNonce))
      => ~vres[1].overall

C9_NeverThrows ==
    /\ vpc # "threw"
    /\ (VerifyDone /\ vin.sig.mut \in {"short", "nonhex", "number"}) =>
          /\ ~vres[1].resultSignature.verified
          /\ vres[1].resultSignature.error # ""

\* C7: the binding check passes (bindsAddress and embedsNonce both true) if
\* and only if the first 32 bytes of the report data equal
\* pad32(signing_address) and the last 32 bytes equal the request nonce,
\* byte for byte.
C7_BindingIffBytesEqual ==
    bout # <<>> =>
        LET padded == [i \in 1..32 |->
                          IF i <= Len(bin.addressBytes)
                          THEN bin.addressBytes[i] ELSE 0]
        IN (bout[1].bindsAddress /\ bout[1].embedsNonce)
           <=> /\ Len(bin.reportBytes) = 64
               /\ SubSeq(bin.reportBytes, 1, 32) = padded
               /\ SubSeq(bin.reportBytes, 33, 64) = bin.nonceBytes

\* The signature argument is the one key `claimed` made over the result
\* that is being verified.
MadeForThisCall ==
    /\ sin.sig.key = sin.claimed.key
    /\ sin.sig.msg = sin.msg
    /\ sin.form \in {"sorted", "permuted"}

\* The mutated signature text decodes to another signature (r, s, v parity)
\* than the one it was made from, or to none.
ChangesSignature(sig) ==
    \/ sig.mut \in {"nonhex", "short"}
    \/ /\ sig.mut \in {"digit", "case"}
       /\ SignatureValue(BufferFromHex(SignatureText(sig)))
            # SignatureValue(SignatureBytes(sig.key, sig.msg))

\* C10 as stated: verified=true for a signature made over the canonical
\* form of the result by the key of the claimed address, and verified=false
\* after any single mutation of the signature or of the result message.
C10_AnySingleMutationFails ==
    sout # <<>> =>
        /\ (MadeForThisCall /\ sin.sig.mut = "none") => sout[1].verified
        /\ (MadeForThisCall /\ sin.sig.mut \in {"digit", "case", "nonhex", "short"})
              => ~sout[1].verified
        /\ (sin.sig.key = sin.claimed.key /\ sin.sig.mut = "none"
            /\ sin.form \in {"sorted", "permuted"} /\ sin.sig.msg # sin.msg)
              => ~sout[1].verified

\* C10 amended: for a signature made over the canonical form of the result
\* by the key of the claimed address, verified=true when the claimed
\* address is written with its 0x prefix (in either letter case) and
\* verified=false when it is written without; verified=false after any single
\* mutation of the result message and after any single mutation of the
\* signature text that changes the signature it decodes to (or leaves none);
\* a mutation that only re-encodes the same signature leaves verified=true.
C10_MutationOfValueFails ==
    sout # <<>> =>
        /\ (MadeForThisCall /\ sin.sig.mut = "none")
              => (sout[1].verified
                    <=> sin.claimed.style \in {"0xlower", "0xupper"})
        /\ (MadeForThisCall /\ sin.sig.mut \in {"digit", "case", "nonhex", "short"})
              => (sout[1].verified <=> ~ChangesSignature(sin.sig))
        /\ (sin.sig.key = sin.claimed.key /\ sin.sig.mut = "none"
            /\ sin.form \in {"sorted", "permuted"} /\ sin.sig.msg # sin.msg)
              => ~sout[1].verified

\* C10 witness: a signature with one digit changed was rejected, and the
\* unmutated one is accepted for a result sent with its keys in another order.
C10_Witness ==
    /\ sout # <<>>
    /\ MadeForThisCall
    /\ \/ sin.sig.mut = "digit" /\ sin.sig.pos = 64 /\ ~sout[1].verified
       \/ sin.sig.mut = "none" /\ sin.form = "permuted" /\ sout[1].verified

====
